---- MODULE Spec2Model ----
(***************************************************************************)
(* State-machine model of pyvcam's Camera class (src/camera.py): the       *)
(* configuration fields (handle, roi, binning, shape, exposure modes) and  *)
(* the acquisition lifecycle driven through a pvc.StreamSaver engine.      *)
(* Every public method is one atomic action (the class is single-threaded  *)
(* by design); the native driver and the StreamSaver engine are external   *)
(* collaborators whose calls may succeed or raise.                         *)
(***************************************************************************)
EXTENDS Integers, Sequences, FiniteSets, TLC

\* ------------------------------------------------------------------ bounds
\* Width of the sensor the driver reports (PARAM_SER_SIZE); the modelled
\* sensor is SensorW x 1 pixels.
SensorW == 1
\* Largest binning factor the driver may list as legal.
MaxBin == 2
\* Longest time_list handed to get_vtm_sequence.
MaxTimes == 2
\* Largest num_frames handed to get_vtm_sequence.
MaxFrames == 3
\* Largest exposure time the driver may report as its maximum.
MaxExp == 2
\* Largest value tried in each field (major, minor, build) of a driver version.
MaxVer == 4

\* ---------------------------------------------------------------- constants
\* Camera.__init__: self.__handle = -1
NoHandle == -1
\* Camera.__init__: self.__exp_time = 0
InitExpTime == 0
\* Stand-in for Python None / an attribute that was never assigned, in
\* integer-valued fields (__mode, __exp_mode, __exp_out_mode).
Unset == 0 - 1
\* Stand-in for None in tuple-valued fields (__roi, __shape).
NoneT == << >>
\* get_vtm_sequence / vtm_exp_time: range(2**16)
VtmLimit == 65536
\* The handle pvc.open_camera returns.
Handles == {0}

VARIABLES
  handle,        \* self.__handle
  is_open,       \* self.__is_open
  mode,          \* self.__mode
  exp_mode,      \* self.__exp_mode   (assigned first in open)
  exp_out_mode,  \* self.__exp_out_mode
  exp_time,      \* self.__exp_time
  binning,       \* self.__binning
  roi,           \* self.__roi
  shape,         \* self.__shape
  stream_saver,  \* self.__stream_saver: the engine object, or exists = FALSE for None
  stream_mode,   \* self.__stream_mode: "None", "live", "acquisition"
  serBins,       \* values of read_enum(PARAM_BINNING_SER)
  parBins,       \* values of read_enum(PARAM_BINNING_PAR)
  exp_res,       \* the driver's PARAM_EXP_RES (read by the exp_res property)
  exp_range,     \* the driver's <<ATTR_MIN, ATTR_MAX>> of PARAM_EXPOSURE_TIME
  pcJoin,        \* where a thread inside join_acquisition stands: "idle" (no
                 \* thread is inside), "called" (in the engine's join),
                 \* "returned" (the engine's join is back, the tag not yet reset)
  orphan,        \* an engine was dropped (set to None) while started and not joined
  ret,           \* outcome of the last call: [op, err, val, arg]
  calls          \* driver / engine calls issued by the last call, in order

camVars    == <<handle, is_open>>
modeVars   == <<mode, exp_mode, exp_out_mode>>
geomVars   == <<binning, roi, shape>>
streamVars == <<stream_saver, stream_mode, orphan>>
drvVars    == <<serBins, parBins, exp_res, exp_range>>
thrVars    == <<pcJoin>>
vars == <<handle, is_open, mode, exp_mode, exp_out_mode, exp_time, binning, roi,
          shape, stream_saver, stream_mode, serBins, parBins, exp_res, exp_range,
          pcJoin, orphan, ret, calls>>

\* ------------------------------------------------------------ pure helpers
\* Python's a | b on non-negative integers.
RECURSIVE BitOr(_, _)
BitOr(a, b) ==
  IF a = 0 THEN b
  ELSE IF b = 0 THEN a
  ELSE (IF a % 2 = 1 \/ b % 2 = 1 THEN 1 ELSE 0) + 2 * BitOr(a \div 2, b \div 2)

\* Python's int(a / b) for integers a and b > 0: true division, then
\* truncation toward zero.
IntOfQuotient(a, b) ==
  IF a >= 0 THEN a \div b ELSE 0 - ((0 - a) \div b)

\* Mathematical floor(a / b) for b > 0 (TLA+ \div rounds toward minus infinity).
Floor(a, b) == a \div b

\* The outcome of a call: the method, the exception it ended with ("ok" for
\* none), what it returned, and its arguments where a property speaks of them.
RetArg(op, err, val, arg) == [op |-> op, err |-> err, val |-> val, arg |-> arg]
Ret(op, err, val) == RetArg(op, err, val, NoneT)
\* One driver or engine call: its name and its integer argument (Unset when
\* the call's arguments are not tracked).
Call(f, a) == [f |-> f, a |-> a]
C(f) == Call(f, Unset)

\* ----------------------------------------------------------- the driver
\* const.exp_modes / const.exp_out_modes: the fixed name -> value tables.
ExpModes == [n \in {"Internal Trigger", "Edge Trigger"} |->
               IF n = "Internal Trigger" THEN 1792 ELSE 2304]
ExpOutModes == [n \in {"First Row", "Any Row", "Rolling Shutter"} |->
                  IF n = "First Row" THEN 0 ELSE IF n = "Any Row" THEN 2 ELSE 3]
TableValues(t) == {t[n] : n \in DOMAIN t}

\* const.exp_resolutions.
ExpResolutions == [n \in {"One Millisecond", "One Microsecond"} |->
                     IF n = "One Millisecond" THEN 0 ELSE 1]

\* Values the driver may report as the current PARAM_EXPOSURE_MODE /
\* PARAM_EXPOSE_OUT_MODE when the camera is opened.
DrvExpModes == TableValues(ExpModes) \cup {1}
DrvExpOutModes == TableValues(ExpOutModes)

\* A pvc parameter call succeeds only on a handle the driver gave out.
DriverAccepts(h) == h \in Handles

\* sensor_size: (get_param(PARAM_SER_SIZE), get_param(PARAM_PAR_SIZE))
sensor_size == <<SensorW, 1>>

\* ---------------------------------------------- the StreamSaver engine
\* The engine object: starts counts start_acquisition() calls not yet
\* followed by a completed join_acquisition() (saturating at 2).
NoEngine == [exists |-> FALSE, attached |-> FALSE, kind |-> "none",
             starts |-> 0, aborted |-> FALSE, done |-> FALSE]
NewEngine == [NoEngine EXCEPT !.exists = TRUE]
EngAttach(e) == [e EXCEPT !.attached = TRUE]
EngSetupAcq(e) == [e EXCEPT !.kind = "acquisition"]
EngSetupLive(e) == [e EXCEPT !.kind = "live"]
EngStart(e) == [e EXCEPT !.starts = IF e.starts >= 2 THEN 2 ELSE e.starts + 1,
                         !.aborted = FALSE, !.done = FALSE]
EngAbort(e) == [e EXCEPT !.aborted = (e.starts > 0)]
EngJoin(e) == [e EXCEPT !.starts = 0, !.aborted = FALSE, !.done = FALSE]
\* acquisition_status(): true from start until a join has completed.
EngStatus(e) == e.starts > 0
\* join_acquisition() returns once the engine has stopped: it was aborted,
\* its bounded sequence is complete, or it is not running at all.
EngStops(e) == e.starts = 0 \/ e.aborted \/ (e.kind = "acquisition" /\ e.done)

\* ------------------------------------------------------------------- Init
\* The Camera object after __init__, and the bookkeeping of the model.
InitCamera ==
  /\ handle = NoHandle
  /\ is_open = FALSE
  /\ mode = Unset
  /\ exp_mode = Unset
  /\ exp_out_mode = Unset
  /\ exp_time = InitExpTime
  /\ binning = <<1, 1>>
  /\ roi = NoneT
  /\ shape = NoneT
  /\ stream_saver = NoEngine
  /\ stream_mode = "None"
  /\ pcJoin = "idle"
  /\ orphan = FALSE
  /\ ret = Ret("init", "ok", "")
  /\ calls = << >>

Init ==
  /\ InitCamera
  /\ serBins \in {1..k : k \in 1..MaxBin}
  /\ parBins \in {1..k : k \in 1..MaxBin}
  /\ exp_res = ExpResolutions["One Millisecond"]
  /\ exp_range = <<0, MaxExp>>

\* --------------------------------------------------------------- geometry
\* calculate_reshape: the value assigned to self.__shape.
calculate_reshape(r, b) ==
  << IntOfQuotient(r[2] - r[1], b[1]), IntOfQuotient(r[4] - r[3], b[2]) >>

\* roi setter's type test: a tuple of 4 ints.
IsRoiTuple(v) == Len(v) = 4

\* A faulty variant of the range test: the upper end of range() taken one
\* too far.
RoiInRange_one_past(v) ==
  /\ v[1] \in 0..(sensor_size[1] + 1)
  /\ v[2] \in 0..(sensor_size[1] + 1)
  /\ v[3] \in 0..(sensor_size[2] + 1)
  /\ v[4] \in 0..(sensor_size[2] + 1)

\* A faulty variant of the range test: the lower end of range() is not
\* enforced.
RoiInRange_no_lower(v) ==
  /\ v[1] <= sensor_size[1]
  /\ v[2] <= sensor_size[1]
  /\ v[3] <= sensor_size[2]
  /\ v[4] <= sensor_size[2]

\* roi setter's range test against sensor_size.
RoiInRange(v) ==
  /\ v[1] \in 0..sensor_size[1]
  /\ v[2] \in 0..sensor_size[1]
  /\ v[3] \in 0..sensor_size[2]
  /\ v[4] \in 0..sensor_size[2]

\* The configuration the geometry setters read and write.
Geom == [binning |-> binning, roi |-> roi, shape |-> shape]
GeomRes(g, err) == [binning |-> g.binning, roi |-> g.roi, shape |-> g.shape, err |-> err]

\* calculate_reshape as called by a setter: roi is subscripted first, which
\* raises TypeError while roi is still None.
Reshape(g) ==
  IF g.roi = NoneT THEN GeomRes(g, "TypeError")
  ELSE GeomRes([g EXCEPT !.shape = calculate_reshape(g.roi, g.binning)], "ok")

\* roi setter (drv: the driver answers the sensor_size reads, which it does
\* on a valid handle).  The two ValueErrors carry different messages.
roi_set(g, value, drv) ==
  IF IsRoiTuple(value)
  THEN IF ~drv THEN GeomRes(g, "DriverError")
       ELSE IF RoiInRange(value)
            THEN Reshape([g EXCEPT !.roi = value])
            ELSE GeomRes(g, "ValueError: Invalid ROI")
  ELSE GeomRes(g, "ValueError: ROI expects 4-tuple")

\* bin_x setter (ser: values of read_enum(PARAM_BINNING_SER)).
bin_x_set(g, value, ser, drv) ==
  IF ~drv THEN GeomRes(g, "DriverError")
  ELSE IF value \in ser
       THEN Reshape([g EXCEPT !.binning = <<value, g.binning[2]>>])
       ELSE GeomRes(g, "ValueError: binning")

\* bin_y setter (par: values of read_enum(PARAM_BINNING_PAR)).
bin_y_set(g, value, par, drv) ==
  IF ~drv THEN GeomRes(g, "DriverError")
  ELSE IF value \in par
       THEN Reshape([g EXCEPT !.binning = <<g.binning[1], value>>])
       ELSE GeomRes(g, "ValueError: binning")

\* binning setter, tuple form: self.bin_x = value[0]; self.bin_y = value[1].
binning_set_tuple(g, value, ser, par, drv) ==
  LET x == bin_x_set(g, value[1], ser, drv) IN
    IF x.err # "ok" THEN x
    ELSE bin_y_set([binning |-> x.binning, roi |-> x.roi, shape |-> x.shape],
                   value[2], par, drv)

\* binning setter, scalar form: tested against the serial enumeration only.
binning_set_scalar(g, value, ser, drv) ==
  IF ~drv THEN GeomRes(g, "DriverError")
  ELSE IF value \in ser
       THEN Reshape([g EXCEPT !.binning = <<value, value>>])
       ELSE GeomRes(g, "ValueError: binning")

\* Inputs tried on the roi setter: every in-range tuple, the full frame with
\* one coordinate moved one step outside the sensor (either side, each
\* coordinate), and a tuple of the wrong length.
FullFrame == <<0, sensor_size[1], 0, sensor_size[2]>>
RoiInputs ==
  {<<a, b, c, d>> : a \in 0..sensor_size[1], b \in 0..sensor_size[1],
                    c \in 0..sensor_size[2], d \in 0..sensor_size[2]}
  \cup {[FullFrame EXCEPT ![i] = o] : i \in 1..2, o \in {0 - 1, sensor_size[1] + 1}}
  \cup {[FullFrame EXCEPT ![i] = o] : i \in 3..4, o \in {0 - 1, sensor_size[2] + 1}}
  \cup {<<0, 1, 0>>}
\* Binning values tried on the setters: up to one past the largest legal one.
BinInputs == 1..(MaxBin + 1)

\* What was passed to the roi setter, recorded with the call's outcome: a
\* 4-tuple with x outside [0, sensor width] or y outside [0, sensor height].
OutOfSensor(v) ==
  /\ Len(v) = 4
  /\ \/ v[1] < 0 \/ v[1] > sensor_size[1]
     \/ v[2] < 0 \/ v[2] > sensor_size[1]
     \/ v[3] < 0 \/ v[3] > sensor_size[2]
     \/ v[4] < 0 \/ v[4] > sensor_size[2]

ApplyGeom(op, r, val) ==
  /\ binning' = r.binning
  /\ roi' = r.roi
  /\ shape' = r.shape
  /\ ret' = Ret(op, r.err, val)
  /\ calls' = << >>
  /\ UNCHANGED <<camVars, modeVars, exp_time, streamVars, drvVars, thrVars>>

SetRoi(value) ==
  ApplyGeom("roi", roi_set(Geom, value, DriverAccepts(handle)),
            IF OutOfSensor(value) THEN "out of sensor" ELSE "")

SetBinX(value) ==
  ApplyGeom("bin_x", bin_x_set(Geom, value, serBins, DriverAccepts(handle)), "")

SetBinY(value) ==
  ApplyGeom("bin_y", bin_y_set(Geom, value, parBins, DriverAccepts(handle)), "")

SetBinningTuple(value) ==
  ApplyGeom("binning_tuple",
            binning_set_tuple(Geom, value, serBins, parBins, DriverAccepts(handle)), "")

SetBinning(value) ==
  ApplyGeom("binning",
            binning_set_scalar(Geom, value, serBins, DriverAccepts(handle)), "")

\* ------------------------------------------------------------ open / close
\* open(): f names the driver call that raises, if any.
\* A faulty variant of open_exp_out_mode: the expose-out mode is read
\* without asking whether the device has the parameter.
open_exp_out_mode_unchecked(eom, sup) == eom

\* open: the expose-out mode is the driver's current one when
\* check_param(PARAM_EXPOSE_OUT_MODE) is true (sup), else 0.
open_exp_out_mode(eom, sup) == IF sup THEN eom ELSE 0

OpenFaults == {"none", "open_camera", "set_param", "get_param"}

Open(f, em, eom, sup) ==
  IF f = "open_camera"
  THEN /\ ret' = Ret("open", "RuntimeError", "")
       /\ calls' = <<C("open_camera")>>
       /\ UNCHANGED <<camVars, modeVars, exp_time, geomVars, streamVars, drvVars, thrVars>>
  ELSE
    \E h \in Handles :
      /\ handle' = h
      /\ is_open' = TRUE
      /\ UNCHANGED <<exp_time, streamVars, drvVars, thrVars>>
      /\ IF f = "set_param"
         THEN /\ ret' = Ret("open", "DriverError", "")
              /\ calls' = <<C("open_camera"), C("set_param")>>
              /\ UNCHANGED <<modeVars, geomVars>>
         ELSE
           LET g == roi_set(Geom, <<0, sensor_size[1], 0, sensor_size[2]>>, TRUE) IN
             /\ binning' = g.binning
             /\ roi' = g.roi
             /\ shape' = g.shape
             /\ IF f = "get_param"
                THEN /\ ret' = Ret("open", "DriverError", "")
                     /\ calls' = <<C("open_camera"), C("set_param"), C("get_param")>>
                     /\ UNCHANGED modeVars
                ELSE /\ exp_mode' = em
                     /\ exp_out_mode' = open_exp_out_mode(eom, sup)
                     /\ mode' = BitOr(exp_mode', exp_out_mode')
                     /\ ret' = Ret("open", "ok", "")
                     /\ calls' = <<C("open_camera"), C("set_param"), C("get_param")>>

\* A faulty variant of close: the open flag is cleared, the handle is kept.
Close_keeps_handle(ok) ==
  IF ok /\ DriverAccepts(handle)
  THEN /\ handle' = handle
       /\ is_open' = FALSE
       /\ stream_saver' = NoEngine
       /\ orphan' = (orphan \/ EngStatus(stream_saver))
       /\ ret' = Ret("close", "ok", "")
       /\ calls' = <<C("close_camera")>>
       /\ UNCHANGED <<modeVars, exp_time, geomVars, stream_mode, drvVars, thrVars>>
  ELSE /\ ret' = Ret("close", "RuntimeError", "")
       /\ calls' = <<C("close_camera")>>
       /\ UNCHANGED <<camVars, modeVars, exp_time, geomVars, streamVars, drvVars, thrVars>>

\* close(): pvc.close_camera raises on a handle the driver does not know,
\* and may raise on a valid one (ok = FALSE).
Close(ok) ==
  IF ok /\ DriverAccepts(handle)
  THEN /\ handle' = NoHandle
       /\ is_open' = FALSE
       /\ stream_saver' = NoEngine
       /\ orphan' = (orphan \/ EngStatus(stream_saver))
       /\ ret' = Ret("close", "ok", "")
       /\ calls' = <<C("close_camera")>>
       /\ UNCHANGED <<modeVars, exp_time, geomVars, stream_mode, drvVars, thrVars>>
  ELSE /\ ret' = Ret("close", "RuntimeError", "")
       /\ calls' = <<C("close_camera")>>
       /\ UNCHANGED <<camVars, modeVars, exp_time, geomVars, streamVars, drvVars, thrVars>>

\* ------------------------------------------------- exposure mode composer
\* A setter argument: a string (a name) or an integer.
StrArg(n) == [str |-> TRUE, s |-> n, i |-> 0]
IntArg(k) == [str |-> FALSE, s |-> "", i |-> k]
ModeArgs(t) ==
  {StrArg(n) : n \in DOMAIN t \cup {"Bogus"}} \cup {IntArg(k) : k \in TableValues(t) \cup {5}}

\* A faulty variant of the setters' test: any integer passes.
ModeArgLegal_any_int(t, v) == IF v.str THEN v.s \in DOMAIN t ELSE TRUE

\* The test both setters make: a str must be a key of the table, anything
\* else must be among its values.
ModeArgLegal(t, v) == IF v.str THEN v.s \in DOMAIN t ELSE v.i \in TableValues(t)
ModeArgValue(t, v) == IF v.str THEN t[v.s] ELSE v.i

\* A faulty variant of update_mode: the sub-modes added instead of or-ed.
update_mode_adds(em, eom) ==
  LET m == em + eom IN [mode |-> m, rearm |-> m]

\* update_mode: the value stored in self.__mode and the value handed to
\* pvc.set_exp_modes.
update_mode(em, eom) ==
  LET m == BitOr(em, eom) IN [mode |-> m, rearm |-> m]

\* update_mode as called by a setter, after the sub-mode was stored:
\* reading a sub-mode that was never assigned raises AttributeError before
\* anything else happens; the driver may refuse the re-arm (drv = FALSE)
\* after self.__mode was stored.
ApplyMode(op, em, eom, drv) ==
  /\ exp_mode' = em
  /\ exp_out_mode' = eom
  /\ UNCHANGED <<camVars, exp_time, geomVars, streamVars, drvVars, thrVars>>
  /\ IF em = Unset \/ eom = Unset
     THEN /\ mode' = mode
          /\ calls' = << >>
          /\ ret' = Ret(op, "AttributeError", "")
     ELSE LET u == update_mode(em, eom) IN
          /\ mode' = u.mode
          /\ calls' = <<Call("set_exp_modes", u.rearm)>>
          /\ ret' = Ret(op, IF drv THEN "ok" ELSE "DriverError", "")

RejectMode(op) ==
  /\ ret' = Ret(op, "ValueError: mode", "")
  /\ calls' = << >>
  /\ UNCHANGED <<camVars, modeVars, exp_time, geomVars, streamVars, drvVars, thrVars>>

\* exp_mode setter.
SetExpMode(value, d) ==
  IF ModeArgLegal(ExpModes, value)
  THEN ApplyMode("exp_mode", ModeArgValue(ExpModes, value), exp_out_mode,
                 d /\ DriverAccepts(handle))
  ELSE RejectMode("exp_mode")

\* exp_out_mode setter.
SetExpOutMode(value, d) ==
  IF ModeArgLegal(ExpOutModes, value)
  THEN ApplyMode("exp_out_mode", exp_mode, ModeArgValue(ExpOutModes, value),
                 d /\ DriverAccepts(handle))
  ELSE RejectMode("exp_out_mode")

\* ------------------------------------------------- acquisition lifecycle
NoActive == "RuntimeError: There are no active acquisitions!"
Conflict == "RuntimeError: There is already an active acquisition!"
\* A RuntimeError raised by the engine itself.
EngineError == "RuntimeError: engine"
IsRuntimeError(e) == e \in {NoActive, Conflict, EngineError}

\* The state a lifecycle method works on, the calls it has issued so far and
\* the exception it ends with ("ok" for none).
Res(sv, sm, cs, err) == [saver |-> sv, mode |-> sm, calls |-> cs, err |-> err]

\* A faulty variant of abort_acquisition: a successful abort also clears the
\* state tag.
abort_acquisition_clears_tag(sv, sm, cs, fail) ==
  IF sm = "None" THEN Res(sv, sm, cs, NoActive)
  ELSE IF ~sv.exists THEN Res(sv, sm, cs, "AttributeError")
  ELSE IF fail THEN Res(sv, sm, Append(cs, C("abort_acquisition")), EngineError)
  ELSE Res(EngAbort(sv), "None", Append(cs, C("abort_acquisition")), "ok")

\* abort_acquisition (fail: the engine's abort raises).
abort_acquisition(sv, sm, cs, fail) ==
  IF sm = "None" THEN Res(sv, sm, cs, NoActive)
  ELSE IF ~sv.exists THEN Res(sv, sm, cs, "AttributeError")
  ELSE IF fail THEN Res(sv, sm, Append(cs, C("abort_acquisition")), EngineError)
  ELSE Res(EngAbort(sv), sm, Append(cs, C("abort_acquisition")), "ok")

\* join_acquisition (fail: the engine's join raises).
join_acquisition(sv, sm, cs, fail) ==
  IF sm = "None" THEN Res(sv, sm, cs, NoActive)
  ELSE IF ~sv.exists THEN Res(sv, sm, cs, "AttributeError")
  ELSE IF fail THEN Res(sv, sm, Append(cs, C("join_acquisition")), EngineError)
  ELSE Res(EngJoin(sv), "None", Append(cs, C("join_acquisition")), "ok")

\* stop_live: abort then join, a RuntimeError from either is swallowed.
stop_live(sv, sm, cs, f) ==
  IF sm # "live" THEN Res(sv, sm, cs, "ok")
  ELSE LET a == abort_acquisition(sv, sm, cs, f = "abort") IN
       IF IsRuntimeError(a.err) THEN Res(a.saver, a.mode, a.calls, "ok")
       ELSE IF a.err # "ok" THEN a
       ELSE LET j == join_acquisition(a.saver, a.mode, a.calls, f = "join") IN
            IF IsRuntimeError(j.err) THEN Res(j.saver, j.mode, j.calls, "ok")
            ELSE j

\* The branch shared by both start methods: create and attach the engine
\* when there is none.
create_engine(cs, f) ==
  LET cs1 == cs \o <<C("StreamSaver"), C("uninit_pvcam"), C("attach_camera")>> IN
    IF f = "attach" THEN Res(NewEngine, "None", cs1, EngineError)
    ELSE Res(EngAttach(NewEngine), "None", cs1, "ok")

\* The tail shared by both start methods: configure, start, tag the state.
setup_and_start(r, kind, f) ==
  LET setup == IF kind = "live" THEN "setup_live" ELSE "setup_acquisition"
      cs1 == Append(r.calls, C(setup))
      cs2 == Append(cs1, C("start_acquisition"))
      e1 == IF kind = "live" THEN EngSetupLive(r.saver) ELSE EngSetupAcq(r.saver)
  IN IF f = "setup" THEN Res(r.saver, r.mode, cs1, EngineError)
     ELSE IF f = "start" THEN Res(e1, r.mode, cs2, EngineError)
     ELSE Res(EngStart(e1), kind, cs2, "ok")

\* start_acquisition (f: the engine call that raises, if it is reached).
start_acquisition(sv, sm, r, f) ==
  IF r = NoneT THEN Res(sv, sm, << >>, "TypeError")
  ELSE IF ~sv.exists
       THEN LET c == create_engine(<< >>, f) IN
            IF c.err # "ok" THEN Res(c.saver, sm, c.calls, c.err)
            ELSE setup_and_start(Res(c.saver, sm, c.calls, "ok"), "acquisition", f)
       ELSE IF sm = "live"
            THEN LET st == stop_live(sv, sm, << >>, f) IN
                 IF st.err # "ok" THEN st
                 ELSE setup_and_start(st, "acquisition", f)
            ELSE IF sm # "None" THEN Res(sv, sm, << >>, Conflict)
                 ELSE setup_and_start(Res(sv, sm, << >>, "ok"), "acquisition", f)

\* start_live_acquisition.
start_live_acquisition(sv, sm, r, cs, f) ==
  IF r = NoneT THEN Res(sv, sm, cs, "TypeError")
  ELSE IF ~sv.exists
       THEN LET c == create_engine(cs, f) IN
            IF c.err # "ok" THEN Res(c.saver, sm, c.calls, c.err)
            ELSE setup_and_start(Res(c.saver, sm, c.calls, "ok"), "live", f)
       ELSE setup_and_start(Res(sv, sm, cs, "ok"), "live", f)

\* check_acquisition: the error it ends with and the value it returns.
check_acquisition(sv, sm) ==
  IF sm = "None" THEN [err |-> "ok", val |-> FALSE, calls |-> << >>]
  ELSE IF ~sv.exists THEN [err |-> "AttributeError", val |-> FALSE, calls |-> << >>]
  ELSE [err |-> "ok", val |-> EngStatus(sv), calls |-> <<C("acquisition_status")>>]

\* start_live: start a live acquisition unless check_acquisition is true.
start_live(sv, sm, r, f) ==
  LET chk == check_acquisition(sv, sm) IN
    IF chk.err # "ok" THEN Res(sv, sm, chk.calls, chk.err)
    ELSE IF chk.val THEN Res(sv, sm, chk.calls, "ok")
    ELSE start_live_acquisition(sv, sm, r, chk.calls, f)

\* A faulty variant of get_acquisition_frame: the cached frame is read
\* without signalling the engine first.
get_acquisition_frame_no_tick(sv, sm, cs, fail) ==
  IF sm = "None" THEN Res(sv, sm, cs, NoActive)
  ELSE IF ~sv.exists THEN Res(sv, sm, cs, "AttributeError")
  ELSE Res(sv, sm, cs \o <<C("acquisition_frame")>>, IF fail THEN EngineError ELSE "ok")

\* get_acquisition_frame (fail: the engine has no frame and raises).
get_acquisition_frame(sv, sm, cs, fail) ==
  IF sm = "None" THEN Res(sv, sm, cs, NoActive)
  ELSE IF ~sv.exists THEN Res(sv, sm, cs, "AttributeError")
  ELSE IF fail
       THEN Res(sv, sm, cs \o <<C("input_tick"), C("acquisition_frame")>>, EngineError)
       ELSE Res(sv, sm, cs \o <<C("input_tick"), C("acquisition_frame")>>, "ok")

\* A faulty variant of get_acquisition_stats: the guard tests the engine
\* object instead of the state tag.
get_acquisition_stats_tests_engine(sv, sm, cs) ==
  IF ~sv.exists THEN Res(sv, sm, cs, NoActive)
  ELSE Res(sv, sm, Append(cs, C("acquisition_stats")), "ok")

\* get_acquisition_stats.
get_acquisition_stats(sv, sm, cs) ==
  IF sm = "None" THEN Res(sv, sm, cs, NoActive)
  ELSE IF ~sv.exists THEN Res(sv, sm, cs, "AttributeError")
  ELSE Res(sv, sm, Append(cs, C("acquisition_stats")), "ok")

\* get_live_frame: the frame poll, then the statistics poll.
get_live_frame(sv, sm, cs, fail) ==
  LET fr == get_acquisition_frame(sv, sm, cs, fail) IN
    IF fr.err # "ok" THEN fr
    ELSE get_acquisition_stats(fr.saver, fr.mode, fr.calls)

PyBool(b) == IF b THEN "True" ELSE "False"

ApplyStream(op, r, val) ==
  /\ stream_saver' = r.saver
  /\ stream_mode' = r.mode
  /\ calls' = r.calls
  /\ ret' = Ret(op, r.err, val)
  /\ UNCHANGED <<camVars, modeVars, exp_time, geomVars, orphan, drvVars, thrVars>>

StartFaults == {"none", "attach", "abort", "join", "setup", "start"}
StopFaults == {"none", "abort", "join"}

StartLive(f) ==
  ApplyStream("start_live", start_live(stream_saver, stream_mode, roi, f), "")

StopLive(f) ==
  ApplyStream("stop_live", stop_live(stream_saver, stream_mode, << >>, f), "")

StartAcquisition(f) ==
  ApplyStream("start_acquisition",
              start_acquisition(stream_saver, stream_mode, roi, f), "")

GetAcquisitionFrame(fail) ==
  LET r == get_acquisition_frame(stream_saver, stream_mode, << >>, fail) IN
    ApplyStream("get_acquisition_frame", r, IF r.err = "ok" THEN "frame" ELSE "")

GetLiveFrame(fail) ==
  LET r == get_live_frame(stream_saver, stream_mode, << >>, fail) IN
    ApplyStream("get_live_frame", r, IF r.err = "ok" THEN "frame, fps" ELSE "")

GetAcquisitionStats ==
  LET r == get_acquisition_stats(stream_saver, stream_mode, << >>) IN
    ApplyStream("get_acquisition_stats", r, IF r.err = "ok" THEN "stats" ELSE "")

CheckAcquisition ==
  LET c == check_acquisition(stream_saver, stream_mode) IN
    ApplyStream("check_acquisition", Res(stream_saver, stream_mode, c.calls, c.err),
                IF c.err = "ok" THEN PyBool(c.val) ELSE "")

AbortAcquisition(fail) ==
  ApplyStream("abort_acquisition",
              abort_acquisition(stream_saver, stream_mode, << >>, fail), "")

\* join_acquisition blocks in the engine's join until the engine has stopped;
\* the call returns (or raises) only then.
JoinAcquisition(fail) ==
  /\ stream_mode = "None" \/ ~stream_saver.exists \/ fail \/ EngStops(stream_saver)
  /\ ApplyStream("join_acquisition",
                 join_acquisition(stream_saver, stream_mode, << >>, fail), "")

\* The engine's capture thread completes a bounded sequence on its own.
EngineFinish ==
  /\ stream_saver.exists
  /\ stream_saver.starts > 0
  /\ stream_saver.kind = "acquisition"
  /\ ~stream_saver.done
  /\ stream_saver' = [stream_saver EXCEPT !.done = TRUE]
  /\ ret' = Ret("engine", "ok", "")
  /\ calls' = << >>
  /\ UNCHANGED <<camVars, modeVars, exp_time, geomVars, stream_mode, orphan, drvVars, thrVars>>

\* ------------------------------------------------ variable-timed sequence
\* A faulty variant of the range test: one value past the end is accepted.
InVtmRange_one_past(t) == t \in 0..VtmLimit

\* `t in range(2**16)`
InVtmRange(t) == t \in 0..(VtmLimit - 1)

\* exp_res setter (drv: the driver applies the setting): the driver's value
\* afterwards and the exception raised.
exp_res_set(cur, value, drv) ==
  IF ~ModeArgLegal(ExpResolutions, value)
  THEN [exp_res |-> cur, err |-> "ValueError: exp_res"]
  ELSE IF ~drv THEN [exp_res |-> cur, err |-> "DriverError"]
  ELSE [exp_res |-> ModeArgValue(ExpResolutions, value), err |-> "ok"]

\* vtm_exp_time setter (drv: the driver applies the setting).
vtm_exp_time_set(value, drv) ==
  IF ~InVtmRange(value) THEN "ValueError: vtm time"
  ELSE IF ~drv THEN "DriverError"
  ELSE "ok"

\* `self.vtm_exp_time = v` inside the loop: the calls issued so far, the
\* exposure time the device holds (dev) and the exception raised.
SetTime(cs, dev, v, drv) ==
  LET e == vtm_exp_time_set(v, drv) IN
    [err |-> e,
     calls |-> IF e = "ValueError: vtm time" THEN cs
               ELSE Append(cs, Call("set_exp_time", v)),
     dev |-> IF e = "ok" THEN v ELSE dev]

\* A driver fault during get_vtm_sequence: "exp_res" rejects the resolution
\* set before the loop; "set" rejects the first exposure-time set issued for
\* frame `at`, "set_retry" the first two; "capture" fails get_frame for
\* frame `at`.
VtmFault(kind, at) == [kind |-> kind, at |-> at]
VtmFaults(n) ==
  {VtmFault("none", 0), VtmFault("exp_res", 0)} \cup
  {VtmFault(k, i) : k \in {"set", "set_retry", "capture"}, i \in 0..(n - 1)}

\* The loop of get_vtm_sequence from frame i on: pos entries of the
\* iterator over time_list are consumed, dev is the device's exposure time.
RECURSIVE VtmLoop(_, _, _, _, _, _, _)
VtmLoop(tl, n, i, pos, dev, cs, f) ==
  IF i = n THEN [calls |-> cs, err |-> "ok"]
  ELSE
    LET rejected(k) == /\ f.at = i
                       /\ \/ k = 1 /\ f.kind \in {"set", "set_retry"}
                          \/ k = 2 /\ f.kind = "set_retry"
        \* try: self.vtm_exp_time = next(t)
        tried == pos < Len(tl)
        s1 == IF tried THEN SetTime(cs, dev, tl[pos + 1], ~rejected(1))
              ELSE [err |-> "StopIteration", calls |-> cs, dev |-> dev]
        \* except: t = iter(time_list); self.vtm_exp_time = next(t)
        s2 == IF s1.err = "ok" THEN s1
              ELSE IF tl = << >>
                   THEN [err |-> "StopIteration", calls |-> s1.calls, dev |-> s1.dev]
                   ELSE SetTime(s1.calls, s1.dev, tl[1],
                                ~rejected(IF tried /\ s1.err = "DriverError" THEN 2 ELSE 1))
        pos2 == IF s1.err = "ok" THEN pos + 1 ELSE 1
        \* pvc.get_frame(...)
        cs3 == Append(s2.calls, Call("get_frame", s2.dev))
    IN IF s2.err # "ok" THEN [calls |-> s2.calls, err |-> s2.err]
       ELSE IF f.kind = "capture" /\ f.at = i THEN [calls |-> cs3, err |-> "DriverError"]
       ELSE VtmLoop(tl, n, i + 1, pos2, s2.dev, cs3, f)

\* get_vtm_sequence(time_list, exp_res, num_frames): the driver's exposure
\* resolution afterwards, the calls issued and the exception raised.
get_vtm_sequence(tl, res, n, r, h, cur, f) ==
  IF \E k \in 1..Len(tl) : ~InVtmRange(tl[k])
  THEN [exp_res |-> cur, calls |-> << >>, err |-> "ValueError: vtm time"]
  ELSE IF r = NoneT THEN [exp_res |-> cur, calls |-> << >>, err |-> "TypeError"]
  ELSE IF ~DriverAccepts(h)
       THEN [exp_res |-> cur, calls |-> <<C("get_exp_res")>>, err |-> "DriverError"]
  ELSE
    LET old_res == cur
        s == exp_res_set(cur, res, f.kind # "exp_res")
        cs1 == IF s.err = "ValueError: exp_res" THEN <<C("get_exp_res")>>
               ELSE <<C("get_exp_res"), Call("set_exp_res", ModeArgValue(ExpResolutions, res))>>
        l == VtmLoop(tl, n, 0, 0, Unset, cs1, f)
    IN IF s.err # "ok" THEN [exp_res |-> s.exp_res, calls |-> cs1, err |-> s.err]
       ELSE IF l.err # "ok" THEN [exp_res |-> s.exp_res, calls |-> l.calls, err |-> l.err]
       ELSE [exp_res |-> exp_res_set(s.exp_res, IntArg(old_res), TRUE).exp_res,
             calls |-> Append(l.calls, Call("set_exp_res", old_res)),
             err |-> "ok"]

\* The time lists tried: the prefixes of 10, 20, 30, ... and the same with
\* one entry moved just outside the legal range on either side.
TimePrefix(k) == [i \in 1..k |-> 10 * i]
TimeLists ==
  {TimePrefix(k) : k \in 0..MaxTimes} \cup
  UNION {{[TimePrefix(k) EXCEPT ![i] = b] : i \in 1..k, b \in {0 - 1, VtmLimit}} :
            k \in 1..MaxTimes}
ResInputs == {IntArg(1), IntArg(5)}

\* The time list has an entry outside [0, 65535].
OutOfVtmRange(tl) == \E k \in 1..Len(tl) : tl[k] < 0 \/ tl[k] > 65535

GetVtmSequence(tl, res, n, f) ==
  LET r == get_vtm_sequence(tl, res, n, roi, handle, exp_res, f) IN
    /\ exp_res' = r.exp_res
    /\ calls' = r.calls
    /\ ret' = RetArg("get_vtm_sequence", r.err,
                     IF OutOfVtmRange(tl) THEN "invalid entry" ELSE "",
                     [times |-> tl, n |-> n])
    /\ UNCHANGED <<camVars, modeVars, exp_time, geomVars, streamVars, serBins, parBins, exp_range,
                  thrVars>>

SetExpRes(value, d) ==
  LET s == exp_res_set(exp_res, value, d /\ DriverAccepts(handle)) IN
    /\ exp_res' = s.exp_res
    /\ calls' = IF s.err = "ValueError: exp_res" THEN << >>
                ELSE <<Call("set_exp_res", ModeArgValue(ExpResolutions, value))>>
    /\ ret' = Ret("exp_res", s.err, "")
    /\ UNCHANGED <<camVars, modeVars, exp_time, geomVars, streamVars, serBins, parBins, exp_range,
                  thrVars>>

\* ----------------------------------------- join_acquisition, step by step
\* join_acquisition as a second thread sees it: the test of the state tag
\* and the call of the engine's join (JoinCall), the engine's join coming
\* back once the engine has stopped (JoinEngineReturns), and the assignment
\* `self.__stream_mode = None` (JoinFinish).  Other calls may run in between.
JoinCall ==
  /\ pcJoin = "idle"
  /\ LET err == IF stream_mode = "None" THEN NoActive
                ELSE IF ~stream_saver.exists THEN "AttributeError"
                ELSE "ok"
     IN /\ pcJoin' = IF err = "ok" THEN "called" ELSE "idle"
        /\ calls' = IF err = "ok" THEN <<C("join_acquisition")>> ELSE << >>
        /\ ret' = Ret("join_acquisition", err, IF err = "ok" THEN "called" ELSE "")
  /\ UNCHANGED <<camVars, modeVars, exp_time, geomVars, streamVars, drvVars>>

JoinEngineReturns ==
  /\ pcJoin = "called"
  /\ EngStops(stream_saver)
  /\ stream_saver' = EngJoin(stream_saver)
  /\ pcJoin' = "returned"
  /\ calls' = << >>
  /\ ret' = Ret("join_acquisition", "ok", "engine joined")
  /\ UNCHANGED <<camVars, modeVars, exp_time, geomVars, stream_mode, orphan, drvVars>>

JoinFinish ==
  /\ pcJoin = "returned"
  /\ stream_mode' = "None"
  /\ pcJoin' = "idle"
  /\ calls' = << >>
  /\ ret' = Ret("join_acquisition", "ok", "")
  /\ UNCHANGED <<camVars, modeVars, exp_time, geomVars, stream_saver, orphan, drvVars>>

\* ---------------------------------------------------------- exposure time
\* exp_time setter (rng: the <<min, max>> the driver reports; drv: the
\* driver answers the two reads): the stored value afterwards and the
\* exception raised.
exp_time_set(cur, value, rng, drv) ==
  IF ~drv THEN [exp_time |-> cur, err |-> "DriverError"]
  ELSE IF value \notin rng[1]..rng[2]
       THEN [exp_time |-> cur, err |-> "ValueError: exp_time"]
       ELSE [exp_time |-> value, err |-> "ok"]

\* Exposure times tried on the setter: from one below the smallest minimum
\* to one above the largest maximum.
ExpInputs == (0 - 1)..(MaxExp + 1)
\* The <<min, max>> pairs a driver may report.
ExpRanges == {<<mn, mx>> : mn \in 0..1, mx \in 1..MaxExp}

SetExpTime(value) ==
  LET s == exp_time_set(exp_time, value, exp_range, DriverAccepts(handle)) IN
    /\ exp_time' = s.exp_time
    /\ calls' = <<C("get_param"), C("get_param")>>
    /\ ret' = RetArg("exp_time", s.err, "", <<value>>)
    /\ UNCHANGED <<camVars, modeVars, geomVars, streamVars, drvVars, thrVars>>

\* ------------------------------------------------------- driver_version
\* Python's & and >> on non-negative integers.
RECURSIVE BitAnd(_, _)
BitAnd(a, b) ==
  IF a = 0 \/ b = 0 THEN 0
  ELSE (IF a % 2 = 1 /\ b % 2 = 1 THEN 1 ELSE 0) + 2 * BitAnd(a \div 2, b \div 2)
RECURSIVE ShiftRight(_, _)
ShiftRight(a, n) == IF n = 0 THEN a ELSE ShiftRight(a \div 2, n - 1)

\* The three numbers driver_version formats as 'major.minor.build' from the
\* driver's version word. In Python >> binds tighter than &, so
\* `dd_ver & 0xff00 >> 8` is dd_ver & (0xff00 >> 8).
driver_version(dd_ver) ==
  << BitAnd(dd_ver, ShiftRight(65280, 8)),
     BitAnd(dd_ver, ShiftRight(240, 4)),
     BitAnd(dd_ver, 15) >>

\* Version words the driver may report: every combination of small major,
\* minor and build fields, and the word with all 16 bits set.
DriverVersions ==
  {256 * a + 16 * b + c : a \in 0..MaxVer, b \in 0..MaxVer, c \in 0..MaxVer} \cup {65535}

\* The driver_version property (v: the driver's PARAM_DD_VERSION).
DriverVersion(v) ==
  /\ calls' = <<C("get_param")>>
  /\ ret' = IF DriverAccepts(handle)
            THEN RetArg("driver_version", "ok", "major.minor.build",
                        <<v>> \o driver_version(v))
            ELSE RetArg("driver_version", "DriverError", "", <<v>>)
  /\ UNCHANGED <<camVars, modeVars, exp_time, geomVars, streamVars, drvVars, thrVars>>

\* ------------------------------------------------------------ get_frame
\* The optional exp_time argument of get_frame: an integer, or anything
\* else (None when it is left out).
IntOverride(k) == [int |-> TRUE, i |-> k]
NoOverride == [int |-> FALSE, i |-> 0]
FrameOverrides == {NoOverride} \cup {IntOverride(k) : k \in 0..(MaxExp + 1)}

\* The arguments of pvc.get_frame: handle, x_start, x_end - 1, bin_x,
\* y_start, y_end - 1, bin_y, exposure time, mode.
FrameArgs(h, r, b, e, md) ==
  <<h, r[1], r[2] - 1, b[1], r[3], r[4] - 1, b[2], e, md>>

\* A faulty variant of get_frame: the exp_time argument is ignored.
get_frame_ignores_override(r, b, sh, et, md, h, ov, fail) ==
  IF r = NoneT THEN [calls |-> << >>, err |-> "TypeError"]
  ELSE [calls |-> <<Call("get_frame", FrameArgs(h, r, b, et, md))>>,
        err |-> IF ~DriverAccepts(h) \/ fail THEN "DriverError"
                ELSE IF sh = NoneT THEN "TypeError" ELSE "ok"]

\* get_frame(exp_time) (fail: the driver rejects the capture): the driver
\* calls issued and the exception raised. Unpacking a roi of None raises
\* before anything is called.
get_frame(r, b, sh, et, md, h, ov, fail) ==
  IF r = NoneT THEN [calls |-> << >>, err |-> "TypeError"]
  ELSE
    LET e == IF ov.int THEN ov.i ELSE et IN
      [calls |-> <<Call("get_frame", FrameArgs(h, r, b, e, md))>>,
       err |-> IF ~DriverAccepts(h) \/ fail THEN "DriverError"
               ELSE IF sh = NoneT THEN "TypeError" ELSE "ok"]

GetFrame(ov, fail) ==
  LET r == get_frame(roi, binning, shape, exp_time, mode, handle, ov, fail) IN
    /\ calls' = r.calls
    /\ ret' = RetArg("get_frame", r.err, IF r.err = "ok" THEN "frame" ELSE "", <<ov>>)
    /\ UNCHANGED <<camVars, modeVars, exp_time, geomVars, streamVars, drvVars, thrVars>>

\* ------------------------------------------------- geometry specification
\* The sub-modes the driver reports at open are fixed here: the geometry
\* fields do not depend on them.
NextGeom ==
  \/ \E f \in OpenFaults :
       Open(f, ExpModes["Internal Trigger"], ExpOutModes["First Row"], TRUE)
  \/ \E ok \in BOOLEAN : Close(ok)
  \/ \E v \in RoiInputs : SetRoi(v)
  \/ \E v \in BinInputs : SetBinX(v)
  \/ \E v \in BinInputs : SetBinY(v)
  \/ \E v \in BinInputs \X BinInputs : SetBinningTuple(v)
  \/ \E v \in BinInputs : SetBinning(v)

SpecGeom == Init /\ [][NextGeom]_vars

\* ----------------------------------------------- mode-composer specification
NextMode ==
  \/ \E f \in OpenFaults, em \in DrvExpModes, eom \in DrvExpOutModes, sup \in BOOLEAN :
       Open(f, em, eom, sup)
  \/ \E ok \in BOOLEAN : Close(ok)
  \/ \E v \in ModeArgs(ExpModes), d \in BOOLEAN : SetExpMode(v, d)
  \/ \E v \in ModeArgs(ExpOutModes), d \in BOOLEAN : SetExpOutMode(v, d)

SpecMode == Init /\ [][NextMode]_vars

\* --------------------------------------------------- lifecycle specification
\* The sub-modes the driver reports at open are fixed here as well.
Next ==
  \/ \E f \in OpenFaults :
       Open(f, ExpModes["Internal Trigger"], ExpOutModes["First Row"], TRUE)
  \/ \E ok \in BOOLEAN : Close(ok)
  \/ \E f \in StartFaults : StartLive(f)
  \/ \E f \in StopFaults : StopLive(f)
  \/ \E f \in StartFaults : StartAcquisition(f)
  \/ \E fail \in BOOLEAN : GetAcquisitionFrame(fail)
  \/ \E fail \in BOOLEAN : GetLiveFrame(fail)
  \/ GetAcquisitionStats
  \/ CheckAcquisition
  \/ \E fail \in BOOLEAN : AbortAcquisition(fail)
  \/ \E fail \in BOOLEAN : JoinAcquisition(fail)
  \/ EngineFinish

Spec == Init /\ [][Next]_vars

\* ------------------------------------------ variable-timed specification
\* The driver lists every binning factor here: the sequence does not depend
\* on the list.
InitVtm == Init /\ serBins = 1..MaxBin /\ parBins = 1..MaxBin

NextVtm ==
  \/ \E f \in OpenFaults :
       Open(f, ExpModes["Internal Trigger"], ExpOutModes["First Row"], TRUE)
  \/ \E ok \in BOOLEAN : Close(ok)
  \/ \E v \in ModeArgs(ExpResolutions), d \in BOOLEAN : SetExpRes(v, d)
  \/ \E tl \in TimeLists, res \in ResInputs, n \in 0..MaxFrames :
       \E f \in VtmFaults(n) : GetVtmSequence(tl, res, n, f)

SpecVtm == InitVtm /\ [][NextVtm]_vars

\* --------------------------------------------- exposure-time specification
\* The driver's exposure-time range is any of ExpRanges; it lists every
\* binning factor.
InitExp ==
  /\ InitCamera
  /\ serBins = 1..MaxBin
  /\ parBins = 1..MaxBin
  /\ exp_res = ExpResolutions["One Millisecond"]
  /\ exp_range \in ExpRanges

NextExp ==
  \/ \E f \in OpenFaults :
       Open(f, ExpModes["Internal Trigger"], ExpOutModes["First Row"], TRUE)
  \/ \E ok \in BOOLEAN : Close(ok)
  \/ \E v \in ExpInputs : SetExpTime(v)

SpecExp == InitExp /\ [][NextExp]_vars

\* ------------------------------------------------ two-thread specifications
\* One thread may be inside join_acquisition while a second thread calls
\* abort_acquisition and the polls; every other call is made while no
\* thread is inside join_acquisition.  The engine's join comes back once
\* the engine has stopped, and a thread that can run does run.
\* ------------------------------------------- single-capture specification
NextFrame ==
  \/ \E em \in {ExpModes["Internal Trigger"], ExpModes["Edge Trigger"]} :
       Open("none", em, ExpOutModes["First Row"], TRUE)
  \/ Close(TRUE)
  \/ \E v \in RoiInputs : SetRoi(v)
  \/ \E v \in BinInputs : SetBinX(v)
  \/ \E v \in ExpInputs : SetExpTime(v)
  \/ StartLive("none")
  \/ \E ov \in FrameOverrides, fail \in BOOLEAN : GetFrame(ov, fail)

SpecFrame == InitVtm /\ [][NextFrame]_vars

\* ---------------------------------------------------- open specification
\* open after any roi the setter accepts, whatever sub-modes the driver
\* reports and whether or not it has the expose-out parameter.
NextOpen ==
  \/ \E f \in OpenFaults, em \in DrvExpModes, eom \in DrvExpOutModes, sup \in BOOLEAN :
       Open(f, em, eom, sup)
  \/ \E ok \in BOOLEAN : Close(ok)
  \/ \E v \in RoiInputs : SetRoi(v)

SpecOpen == InitVtm /\ [][NextOpen]_vars

\* ------------------------------------------ driver-version specification
NextVersion ==
  \/ \E f \in OpenFaults :
       Open(f, ExpModes["Internal Trigger"], ExpOutModes["First Row"], TRUE)
  \/ \E ok \in BOOLEAN : Close(ok)
  \/ \E v \in DriverVersions : DriverVersion(v)

SpecVersion == InitVtm /\ [][NextVersion]_vars

WhileNotJoining ==
  /\ pcJoin = "idle"
  /\ \/ \E f \in OpenFaults :
          Open(f, ExpModes["Internal Trigger"], ExpOutModes["First Row"], TRUE)
     \/ \E ok \in BOOLEAN : Close(ok)
     \/ \E f \in StartFaults : StartLive(f)
     \/ \E f \in StopFaults : StopLive(f)
     \/ \E f \in StartFaults : StartAcquisition(f)

NextJoin ==
  \/ WhileNotJoining
  \/ JoinCall
  \/ JoinEngineReturns
  \/ JoinFinish
  \/ \E fail \in BOOLEAN : AbortAcquisition(fail)
  \/ \E fail \in BOOLEAN : GetAcquisitionFrame(fail)
  \/ GetAcquisitionStats
  \/ CheckAcquisition
  \/ EngineFinish

SpecJoin ==
  InitVtm /\ [][NextJoin]_vars /\ WF_vars(JoinEngineReturns) /\ WF_vars(JoinFinish)

\* As above, and the second thread may also call start_live and
\* start_acquisition while the first is inside join_acquisition.
WhileJoining ==
  /\ pcJoin # "idle"
  /\ \/ \E f \in StartFaults : StartLive(f)
     \/ \E f \in StartFaults : StartAcquisition(f)

NextRace == NextJoin \/ WhileJoining

SpecRace == InitVtm /\ [][NextRace]_vars

\* ------------------------------------------------------- geometry claims
GeomOps == {"roi", "bin_x", "bin_y", "binning", "binning_tuple"}
BinOps == {"bin_x", "bin_y", "binning", "binning_tuple"}

\* C4: after open, and after every successful ROI or binning change, shape
\* equals (floor((x_end - x_start) / bin_x), floor((y_end - y_start) / bin_y))
\* for every roi and binning the setters accept.
C4_ShapeIsFloorOfQuotient ==
  (ret.err = "ok" /\ ret.op \in GeomOps \cup {"open"}) =>
     shape = << Floor(roi[2] - roi[1], binning[1]), Floor(roi[4] - roi[3], binning[2]) >>

\* C5: an roi with a coordinate outside the sensor bounds is refused with
\* the invalid-value error, and roi and shape stay as they were (the error
\* kind is the driver's own when the driver does not answer the sensor-size
\* read, i.e. on an invalid handle).
C5_RoiOutOfBoundsRejected ==
  [][(ret'.op = "roi" /\ ret'.val = "out of sensor") =>
        /\ roi' = roi
        /\ shape' = shape
        /\ DriverAccepts(handle) => ret'.err = "ValueError: Invalid ROI"]_vars

\* C5 witness: an out-of-bounds roi was refused on an open camera that
\* holds a roi and a shape.
C5_Witness ==
  /\ ret.op = "roi"
  /\ ret.val = "out of sensor"
  /\ ret.err = "ValueError: Invalid ROI"
  /\ is_open
  /\ roi # NoneT
  /\ shape # NoneT

\* C6: a binning set that fails with the invalid-value error (scalar, tuple
\* or per-axis form) leaves the binning pair and shape unchanged.
C6_FailedBinningUnchanged ==
  [][(ret'.op \in BinOps /\ ret'.err = "ValueError: binning") =>
        (binning' = binning /\ shape' = shape)]_vars

\* C7: setting binning jointly to v is equivalent to the serial-axis setter
\* followed by the parallel-axis setter with v: both succeed with the same
\* binning and shape, or both fail.
C7_JointEqualsBothAxes ==
  \A v \in BinInputs :
    LET drv == DriverAccepts(handle)
        j == binning_set_scalar(Geom, v, serBins, drv)
        x == bin_x_set(Geom, v, serBins, drv)
        a == IF x.err # "ok" THEN x
             ELSE bin_y_set([binning |-> x.binning, roi |-> x.roi, shape |-> x.shape],
                            v, parBins, drv)
    IN /\ (j.err = "ok") <=> (a.err = "ok")
       /\ (j.err = "ok") => (j.binning = a.binning /\ j.shape = a.shape)

\* --------------------------------------------------- mode-composer claims
ModeOps == {"exp_mode", "exp_out_mode"}

\* C8: after open and after any successful setExposureMode or
\* setExposeOutMode call, the stored device mode is the bitwise OR of the
\* stored exposure mode and the stored expose-out mode, and a setter hands
\* that same value to the driver's re-arm call.
C8_ModeIsOrOfSubModes ==
  /\ (ret.err = "ok" /\ ret.op \in ModeOps \cup {"open"}) =>
        mode = BitOr(exp_mode, exp_out_mode)
  /\ (ret.err = "ok" /\ ret.op \in ModeOps) =>
        calls = <<Call("set_exp_modes", mode)>>

\* C8 witness: a setter succeeded and composed two sub-modes with common
\* bits, neither of which is zero.
C8_Witness ==
  /\ ret.op \in ModeOps
  /\ ret.err = "ok"
  /\ exp_mode = 1
  /\ exp_out_mode = 3
  /\ mode = 3

\* ------------------------------------------------------- lifecycle claims
\* Engine starts that no completed join has followed, over all engines the
\* camera has created.
UnjoinedStarts == (IF orphan THEN 1 ELSE 0) + stream_saver.starts

\* C1: start_acquisition called while the state tag is "acquisition" raises
\* the already-active RuntimeError, issues no engine call, and leaves the
\* engine and the state tag as they were.
C1_StartWhileSequenceRejected ==
  [][(stream_mode = "acquisition" /\ ret'.op = "start_acquisition") =>
        /\ ret'.err = Conflict
        /\ calls' = << >>
        /\ stream_saver' = stream_saver
        /\ stream_mode' = "acquisition"]_vars

PollOps == {"get_acquisition_frame", "get_acquisition_stats",
            "abort_acquisition", "join_acquisition"}

\* C2: get_acquisition_frame, get_acquisition_stats, abort_acquisition and
\* join_acquisition raise the no-active-acquisitions RuntimeError exactly
\* when the state tag is None at the call.
C2_NoActiveIffIdle ==
  [][ret'.op \in PollOps => ((ret'.err = NoActive) <=> (stream_mode = "None"))]_vars

\* C2 witness: after a session was started and joined, the camera is idle
\* again with its engine still attached, and a poll raised the error.
C2_Witness ==
  /\ ret.op \in PollOps
  /\ ret.err = NoActive
  /\ stream_mode = "None"
  /\ stream_saver.exists
  /\ stream_saver.kind # "none"

\* C3: at most one engine is ever running: no engine is created or started
\* while a previously started engine has not been joined.
C3_AtMostOneEngineRunning == UnjoinedStarts <= 1

\* C9: a successful start_acquisition called in state "live" first aborts
\* and joins the live session, then configures and starts the bounded
\* capture, and ends in state "acquisition" with exactly that one session
\* running.
C9_LiveStoppedBeforeSequence ==
  [][(stream_mode = "live" /\ ret'.op = "start_acquisition" /\ ret'.err = "ok") =>
        /\ calls' = <<C("abort_acquisition"), C("join_acquisition"),
                      C("setup_acquisition"), C("start_acquisition")>>
        /\ stream_mode' = "acquisition"
        /\ stream_saver'.starts = 1]_vars

\* C10: check_acquisition returns True exactly when the state tag is not
\* None, from the start of a session until a join has completed.
C10_ActiveIffNotIdle ==
  [][ret'.op = "check_acquisition" =>
        /\ ret'.err = "ok"
        /\ ret'.val = PyBool(stream_mode # "None")]_vars

\* The calls of the last operation include an engine call named f.
Issued(f) == \E i \in 1..Len(calls) : calls[i].f = f

\* C11: abort_acquisition called in state "live" does not block (the call is
\* always able to return) and leaves the state tag "live"; the tag goes from
\* "live" to None only in a call in which the engine's join_acquisition
\* completed.
C11_AbortKeepsLiveUntilJoin ==
  /\ [](stream_mode = "live" => ENABLED AbortAcquisition(FALSE))
  /\ [][((stream_mode = "live" /\ ret'.op = "abort_acquisition") =>
            stream_mode' = "live")
         /\
         ((stream_mode = "live" /\ stream_mode' = "None") =>
            (Issued("join_acquisition")' /\ stream_saver'.starts = 0))]_vars

\* C11 witness: an abort succeeded on a running live engine and the state
\* tag is still "live".
C11_Witness ==
  /\ ret.op = "abort_acquisition"
  /\ ret.err = "ok"
  /\ stream_mode = "live"
  /\ stream_saver.aborted
  /\ stream_saver.starts > 0

\* The engine calls that create, configure or start an engine.
StartingCalls == {"StreamSaver", "attach_camera", "setup_live",
                  "setup_acquisition", "start_acquisition"}
NoStartingCall == \A i \in 1..Len(calls) : calls[i].f \notin StartingCalls

\* C12: start_live called in state "live" is a no-op: it creates, configures
\* and starts no engine, the engine object stays as it was and the state tag
\* stays "live", also after an abort that no join has followed.
C12_StartLiveWhileLiveIsNoOp ==
  [][(stream_mode = "live" /\ ret'.op = "start_live") =>
        /\ NoStartingCall'
        /\ stream_saver' = stream_saver
        /\ stream_mode' = "live"]_vars

\* C13: start_live called while a bounded session is active (state tag
\* "acquisition", an engine started and not yet joined) configures and
\* starts no engine for live capture and leaves the state tag "acquisition".
C13_StartLiveWhileSequenceRejected ==
  [][(stream_mode = "acquisition" /\ UnjoinedStarts > 0 /\ ret'.op = "start_live") =>
        /\ NoStartingCall'
        /\ stream_saver'.kind # "live"
        /\ stream_mode' = "acquisition"]_vars

\* C14: stop_live called in state "live" raises nothing: whatever the
\* engine's abort or join does, the call returns normally.
C14_StopLiveNeverRaises ==
  [][(stream_mode = "live" /\ ret'.op = "stop_live") => ret'.err = "ok"]_vars

\* C15: whenever stop_live is called in state "live" and returns, the engine
\* has been aborted and joined and the state tag is None, also when the
\* abort or the join reported a failure.
C15_StopLiveEndsIdle ==
  [][(stream_mode = "live" /\ ret'.op = "stop_live" /\ ret'.err = "ok") =>
        /\ Issued("abort_acquisition")'
        /\ Issued("join_acquisition")'
        /\ stream_saver'.starts = 0
        /\ stream_mode' = "None"]_vars

\* C16: a successful close leaves the state tag None and the engine
\* detached, and when a session was active it aborted and joined the
\* engine first.
C16_CloseEndsIdle ==
  [][(ret'.op = "close" /\ ret'.err = "ok") =>
        /\ stream_mode' = "None"
        /\ ~stream_saver'.exists
        /\ ~orphan'
        /\ stream_mode # "None" =>
              (Issued("abort_acquisition")' /\ Issued("join_acquisition")')]_vars

\* ------------------------------------------------------- open / close claims
\* C17: in every reachable state, also after an open or a close that failed,
\* the stored handle differs from the sentinel -1 exactly when the open flag
\* is true.
C17_HandleValidIffOpen == (handle # NoHandle) <=> is_open

\* C17 witness: an open that failed after the driver had given out a handle,
\* and a close that failed, each leave a camera with a handle and the flag set.
C17_Witness ==
  /\ ret.op \in {"open", "close"}
  /\ ret.err # "ok"
  /\ handle # NoHandle
  /\ is_open

\* ----------------------------------------------- variable-timed claims
\* The exposure time the device held at each single-frame capture of the
\* last call, in order.
RECURSIVE CaptureTimes(_)
CaptureTimes(cs) ==
  IF cs = << >> THEN << >>
  ELSE IF Head(cs).f = "get_frame" THEN <<Head(cs).a>> \o CaptureTimes(Tail(cs))
  ELSE CaptureTimes(Tail(cs))

\* C18: a get_vtm_sequence call with a non-empty time_list and num_frames n
\* that completes has made exactly n single-frame captures, the i-th
\* (counting from 0) with the device's exposure time set to
\* time_list[i mod len(time_list)].
C18_VtmCyclesTimeList ==
  (ret.op = "get_vtm_sequence" /\ ret.err = "ok" /\ ret.arg.times # << >>) =>
     CaptureTimes(calls) =
       [i \in 1..ret.arg.n |-> ret.arg.times[((i - 1) % Len(ret.arg.times)) + 1]]

\* C19: get_vtm_sequence leaves the driver's exposure resolution at the
\* value it had before the call on every exit, also when an exposure-time
\* set or a capture fails midway.
C19_VtmRestoresResolution ==
  [][ret'.op = "get_vtm_sequence" => exp_res' = exp_res]_vars

\* C20: when an entry of time_list is outside [0, 65535], get_vtm_sequence
\* raises the invalid-value error before it starts: the exposure resolution
\* is unchanged and no driver call (resolution, exposure time, capture) is
\* issued.
C20_VtmValidatesFirst ==
  [][(ret'.op = "get_vtm_sequence" /\ ret'.val = "invalid entry") =>
        /\ ret'.err = "ValueError: vtm time"
        /\ calls' = << >>
        /\ exp_res' = exp_res]_vars

\* C20 witness: on an open camera with a roi, a call whose first entry is
\* legal and whose second is 65536 was refused.
C20_Witness ==
  /\ ret.op = "get_vtm_sequence"
  /\ ret.val = "invalid entry"
  /\ ret.err = "ValueError: vtm time"
  /\ is_open
  /\ roi # NoneT
  /\ ret.arg.n > 0
  /\ Len(ret.arg.times) = 2
  /\ InVtmRange(ret.arg.times[1])
  /\ ret.arg.times[2] = VtmLimit

\* The i-th call of the last operation is an exposure-time set that no
\* capture followed: the driver rejected it (a set the driver accepts is
\* always followed by the frame's get_frame).
RejectedSet(i) ==
  /\ calls[i].f = "set_exp_time"
  /\ i = Len(calls) \/ calls[i + 1].f # "get_frame"

\* C21: a driver rejection is surfaced and never retried: when the driver
\* rejects an exposure-time set inside get_vtm_sequence, the call ends with
\* the driver's error and that set is the last call it issued.
C21_VtmRejectionNotRetried ==
  ret.op = "get_vtm_sequence" =>
    \A i \in 1..Len(calls) :
      RejectedSet(i) => (i = Len(calls) /\ ret.err = "DriverError")

\* ------------------------------------------------ mode-setter rejections
\* The argument is a name that is no key of table t, or an integer that is
\* none of its values.
NotInTable(t, v) ==
  IF v.str THEN \A n \in DOMAIN t : n # v.s ELSE \A n \in DOMAIN t : t[n] # v.i

\* C22: the exp_mode and exp_out_mode setters, given a name that is not in
\* their table or an integer that is not among its values, raise the
\* invalid-value error, leave exp_mode, exp_out_mode and mode as they were
\* and issue no re-arm call.
C22_IllegalModeRejected ==
  [][\A d \in BOOLEAN :
       /\ \A v \in ModeArgs(ExpModes) :
            (NotInTable(ExpModes, v) /\ SetExpMode(v, d)) =>
               /\ ret'.err = "ValueError: mode"
               /\ UNCHANGED modeVars
               /\ calls' = << >>
       /\ \A v \in ModeArgs(ExpOutModes) :
            (NotInTable(ExpOutModes, v) /\ SetExpOutMode(v, d)) =>
               /\ ret'.err = "ValueError: mode"
               /\ UNCHANGED modeVars
               /\ calls' = << >>]_vars

\* C22 witness: a setter refused its argument on an open camera whose three
\* mode fields are set.
C22_Witness ==
  /\ ret.op \in ModeOps
  /\ ret.err = "ValueError: mode"
  /\ is_open
  /\ exp_mode # Unset
  /\ exp_out_mode # Unset
  /\ mode = BitOr(exp_mode, exp_out_mode)

\* -------------------------------------------------------- roi bound claim
\* C23: whenever a roi is stored, its two x coordinates lie in
\* [0, sensor width] and its two y coordinates in [0, sensor height].
C23_RoiWithinSensor ==
  roi # NoneT =>
    /\ 0 <= roi[1] /\ roi[1] <= sensor_size[1]
    /\ 0 <= roi[2] /\ roi[2] <= sensor_size[1]
    /\ 0 <= roi[3] /\ roi[3] <= sensor_size[2]
    /\ 0 <= roi[4] /\ roi[4] <= sensor_size[2]

\* C23 witness: the roi setter stored a roi other than the full frame that
\* open sets.
C23_Witness ==
  /\ ret.op = "roi"
  /\ ret.err = "ok"
  /\ roi # NoneT
  /\ roi # FullFrame

\* ----------------------------------------------------- exposure-time claim
\* C24: the stored exp_time is always within the <<min, max>> the driver
\* reports, from construction on; the setter stores its argument exactly
\* when min <= argument <= max, and a refused argument leaves the stored
\* value as it was.
C24_ExpTimeWithinRange ==
  /\ [](exp_range[1] <= exp_time /\ exp_time <= exp_range[2])
  /\ [][ret'.op = "exp_time" =>
          IF exp_range[1] <= ret'.arg[1] /\ ret'.arg[1] <= exp_range[2]
             /\ DriverAccepts(handle)
          THEN exp_time' = ret'.arg[1] /\ ret'.err = "ok"
          ELSE exp_time' = exp_time /\ ret'.err # "ok"]_vars

\* -------------------------------------------------------- two-thread claims
\* C25: while a thread is inside the engine's join, abort_acquisition from a
\* second thread is able to return, is not refused as "no active
\* acquisition" and changes neither the state tag nor the joining thread's
\* position; once the engine is aborted the join comes back and the state
\* tag becomes None.
C25_AbortWhileJoining ==
  /\ [](pcJoin = "called" => ENABLED AbortAcquisition(FALSE))
  /\ [][(pcJoin = "called" /\ ret'.op = "abort_acquisition") =>
          /\ ret'.err \in {"ok", EngineError}
          /\ stream_mode' = stream_mode
          /\ pcJoin' = pcJoin]_vars
  /\ (pcJoin = "called" /\ stream_saver.aborted) ~>
        (pcJoin = "idle" /\ stream_mode = "None")

\* C25 witness: a thread is inside the engine's join of a live session (which
\* does not end by itself) and the second thread's abort has succeeded.
C25_Witness ==
  /\ pcJoin = "called"
  /\ stream_mode = "live"
  /\ stream_saver.kind = "live"
  /\ stream_saver.aborted
  /\ ret.op = "abort_acquisition"
  /\ ret.err = "ok"

\* C30: with one thread inside join_acquisition and another calling
\* start_live or start_acquisition, the state tag is never None while the
\* attached engine runs a started session that no join has followed.
C30_NeverIdleWhileRunning ==
  ~(stream_mode = "None" /\ stream_saver.starts > 0)

\* ------------------------------------------------------ live-polling claim
LivePolls == {"get_live_frame", "get_acquisition_frame", "get_acquisition_stats"}

\* A live session as open and start_live leave it: the camera open, the
\* state tag "live", the engine attached, configured for live capture,
\* started once and not aborted.
LiveSession ==
  /\ is_open
  /\ stream_mode = "live"
  /\ stream_saver.exists
  /\ stream_saver.kind = "live"
  /\ stream_saver.starts = 1
  /\ ~stream_saver.aborted

\* The last operation read the cached frame only after it had signalled the
\* engine to latch one.
LatchedBeforeRead ==
  \A i \in 1..Len(calls) :
    calls[i].f = "acquisition_frame" => (i > 1 /\ calls[i - 1].f = "input_tick")

\* What every poll of a live session does besides returning: it signals the
\* engine before it reads the frame, and it leaves the state tag "live" and
\* the engine as they were.
PollKeepsLive ==
  /\ LatchedBeforeRead'
  /\ (ret'.op # "get_acquisition_stats" /\ ret'.err = "ok") =>
        (Issued("input_tick")' /\ Issued("acquisition_frame")')
  /\ stream_mode' = "live"
  /\ stream_saver' = stream_saver

C27_GetFrameOneCall ==
  [][ret'.op = "get_frame" =>
        /\ roi # NoneT =>
             /\ Len(calls') = 1
             /\ calls'[1].f = "get_frame"
             /\ calls'[1].a = <<handle, roi[1], roi[2] - 1, binning[1],
                                roi[3], roi[4] - 1, binning[2],
                                IF ret'.arg[1].int THEN ret'.arg[1].i ELSE exp_time,
                                mode>>
        /\ UNCHANGED <<roi, binning, shape, exp_time, mode, exp_mode,
                       exp_out_mode, stream_mode, stream_saver>>]_vars

\* C27 witness: a frame was captured during a live session with an integer
\* override that differs from the stored exposure time, under a binning
\* other than the initial one.
C27_Witness ==
  /\ ret.op = "get_frame"
  /\ ret.err = "ok"
  /\ ret.arg[1].int
  /\ ret.arg[1].i # exp_time
  /\ exp_time # InitExpTime
  /\ binning # <<1, 1>>
  /\ stream_mode = "live"
  /\ Len(calls) = 1

\* -------------------------------------------------------------- open claim
\* C28: after a successful open, roi is the full sensor frame
\* (0, sensor width, 0, sensor height) and the mode is the bitwise OR of the
\* exposure mode the driver reports and the expose-out mode it reports, with
\* 0 for the expose-out mode when the device does not have that parameter.
C28_OpenPostcondition ==
  [][(ret'.op = "open" /\ ret'.err = "ok") =>
        \A em \in DrvExpModes, eom \in DrvExpOutModes, sup \in BOOLEAN :
          Open("none", em, eom, sup) =>
            /\ roi' = <<0, SensorW, 0, sensor_size[2]>>
            /\ mode' = BitOr(em, IF sup THEN eom ELSE 0)]_vars

\* C28 witness: open succeeded on a camera whose sub-modes share a bit (the
\* OR differs from the sum), and left the full frame.
C28_Witness ==
  /\ ret.op = "open"
  /\ ret.err = "ok"
  /\ exp_mode = 1
  /\ exp_out_mode = 3
  /\ mode = 3
  /\ roi = <<0, SensorW, 0, sensor_size[2]>>

\* ---------------------------------------------------- driver-version claim
\* C29: driver_version decodes the version word v as major = (v & 0xff00) >> 8,
\* minor = (v & 0x00f0) >> 4 and build = v & 0x000f.
C29_DriverVersionDecodes ==
  (ret.op = "driver_version" /\ ret.err = "ok") =>
     LET v == ret.arg[1] IN
       /\ ret.arg[2] = ShiftRight(BitAnd(v, 65280), 8)
       /\ ret.arg[3] = ShiftRight(BitAnd(v, 240), 4)
       /\ ret.arg[4] = BitAnd(v, 15)

\* -------------------------------------------------- shape non-negativity claim
\* C31: every roi the roi setter accepts yields a shape with non-negative
\* components: in every state reached through open and the roi and binning
\* setters, a stored shape has neither a negative width nor a negative height.
C31_ShapeNonNegative ==
  shape # NoneT => (shape[1] >= 0 /\ shape[2] >= 0)

====
